---- MODULE Spec2Model ----
(***************************************************************************)
(* Model of mgilson/strawberry:                                            *)
(*   .github/release-check-action/github.py  (release-check notifier)      *)
(*   strawberry/cli/commands/codegen.py      (codegen CLI command)         *)
(*                                                                         *)
(* Strings that the code searches or concatenates are sequences of         *)
(* segments: `a + b` is a \o b and `s in body` is "s is a segment of       *)
(* body".  The GitHub server (the PR's comments and labels) is the         *)
(* environment of the notifier; a request answered with a status < 400     *)
(* has its effect on the server, one answered with a status >= 400 has     *)
(* none.                                                                   *)
(***************************************************************************)
EXTENDS Integers, Sequences, FiniteSets, TLC

VARIABLES
    comments,        \* the PR's comments on the server, oldest first
    comment_op,      \* the last add_or_edit_comment invocation
    pr_labels,       \* the names of the labels on the PR, on the server
    event_labels,    \* github_event_data["pull_request"]["labels"]
    label_ops,       \* update_labels invocations made in succession (last two)
    modules,         \* what importlib.import_module finds: name -> module
    load_op,         \* the last _load_plugin invocation
    instances,       \* every plugin instance constructed by codegen so far
    codegen_op       \* the last codegen invocation

vars == <<comments, comment_op, pr_labels, event_labels, label_ops,
          modules, load_op, instances, codegen_op>>

notifier_comment_vars == <<comments, comment_op>>
notifier_label_vars == <<pr_labels, event_labels, label_ops>>
resolver_vars == <<modules, load_op>>
codegen_vars == <<instances, codegen_op>>

----------------------------------------------------------------------------
(* Bounds *)

MaxComments == 3

----------------------------------------------------------------------------
(* Helpers for the sequence encoding of strings *)

Contains(s, seg) == \E i \in 1..Len(s) : s[i] = seg

Range(s) == {s[i] : i \in 1..Len(s)}

----------------------------------------------------------------------------
(* github.py *)

SIGNATURE == <<"<!-- action-check: release-file -->">>

BotLogins == {"github-actions[bot]", "botberry"}

\* Logins of the PR's human participants.
UserLogins == {"octocat"}

\* Status codes the server answers with.
Statuses == {201, 400}

\* Comment texts: the rendered messages, one of them quoting the marker.
Texts == {<<"ok">>, SIGNATURE \o <<"quoted">>}

\* Faulty variant: the login or the marker alone suffices.
is_release_check_comment_or(comment) ==
    \/ comment.user.login \in BotLogins
    \/ Contains(comment.body, SIGNATURE[1])

is_release_check_comment(comment) ==
    /\ comment.user.login \in BotLogins
    /\ Contains(comment.body, SIGNATURE[1])

get_comments_link == [path |-> "comments", id |-> 0]

\* The "url" of the comment the server created with the given id.
comment_url(id) == [path |-> "comments", id |-> id]

\* next((c for c in current_comments if is_release_check_comment(c)), None):
\* the index of the first accepted comment, 0 for None.
previous_comment(current_comments) ==
    LET hits == {i \in 1..Len(current_comments) :
                    is_release_check_comment(current_comments[i])}
    IN  IF hits = {} THEN 0
        ELSE CHOOSE i \in hits : \A j \in hits : i <= j

\* Faulty variant: the PATCH goes to the comments link.
comment_request_to_link(current_comments, comment) ==
    LET previous == previous_comment(current_comments)
    IN  [method |-> IF previous # 0 THEN "PATCH" ELSE "POST",
         url    |-> get_comments_link,
         body   |-> comment \o SIGNATURE]

\* Faulty variant: a new comment is created whatever was fetched.
comment_request_always_post(current_comments, comment) ==
    [method |-> "POST", url |-> get_comments_link, body |-> comment \o SIGNATURE]

\* The one request add_or_edit_comment sends (lines 42-53).
comment_request(current_comments, comment) ==
    LET previous == previous_comment(current_comments)
    IN  [method |-> IF previous # 0 THEN "PATCH" ELSE "POST",
         url    |-> IF previous # 0 THEN current_comments[previous].url
                    ELSE get_comments_link,
         body   |-> comment \o SIGNATURE]

\* Faulty variant: an error status is raised (as raise_for_status would).
handle_response_raise(status) ==
    [printed |-> <<>>, raised |-> status >= 400]

\* if request.status_code >= 400: print(request.text); print(request.status_code)
\* The response is logged and the handler goes on; nothing is raised.
handle_response(status) ==
    [printed |-> IF status >= 400 THEN <<status>> ELSE <<>>, raised |-> FALSE]

\* The handler sends its requests in order, the i-th answered statuses[i],
\* handling each response before the next request is sent.
RECURSIVE printed_upto(_, _)
printed_upto(statuses, n) ==
    IF n = 0 THEN <<>>
    ELSE printed_upto(statuses, n - 1) \o handle_response(statuses[n]).printed

send_all(reqs, statuses) ==
    LET raisedAt == {i \in 1..Len(reqs) : handle_response(statuses[i]).raised}
        sent     == IF raisedAt = {} THEN Len(reqs)
                    ELSE CHOOSE i \in raisedAt : \A j \in raisedAt : i <= j
    IN  [outcome |-> IF raisedAt = {} THEN "returned" ELSE "raised",
         calls   |-> [i \in 1..sent |-> [req |-> reqs[i], status |-> statuses[i]]],
         printed |-> printed_upto(statuses, sent)]

\* The server's comment list after a request by `login` answered `status`.
server_comments(cs, req, login, status) ==
    IF status >= 400 THEN cs
    ELSE IF req.method = "POST"
         THEN Append(cs, [url  |-> comment_url(Len(cs) + 1),
                          user |-> [login |-> login],
                          body |-> req.body])
         ELSE [i \in 1..Len(cs) |->
                  IF cs[i].url = req.url THEN [cs[i] EXCEPT !.body = req.body]
                  ELSE cs[i]]

RECURSIVE server_comments_all(_, _, _)
server_comments_all(cs, calls, login) ==
    IF calls = <<>> THEN cs
    ELSE server_comments_all(
             server_comments(cs, Head(calls).req, login, Head(calls).status),
             Tail(calls), login)

NoCommentOp ==
    [outcome |-> "none", fetched |-> <<>>, comment |-> <<>>, calls |-> <<>>,
     printed |-> <<>>]

\* add_or_edit_comment(github_event_data, comment), run with the token of
\* `login`: the GET is answered with the comment list, the POST or PATCH is
\* answered `status`.
add_or_edit_comment(comment, login, status) ==
    LET req == comment_request(comments, comment)
        run == send_all(<<req>>, <<status>>)
    IN  /\ req.method = "POST" => Len(comments) < MaxComments
        /\ comments' = server_comments_all(comments, run.calls, login)
        /\ comment_op' = [outcome |-> run.outcome,
                          fetched |-> comments,
                          comment |-> comment,
                          calls   |-> run.calls,
                          printed |-> run.printed]
        /\ UNCHANGED <<notifier_label_vars, resolver_vars, codegen_vars>>

\* add_or_edit_comment with the GET answered by an error: GitHub's error body
\* is a JSON object, iterating it yields its keys, and
\* is_release_check_comment(<str>) raises TypeError before any request is sent.
add_or_edit_comment_get_fails(comment) ==
    /\ comments' = comments
    /\ comment_op' = [outcome |-> "raised",
                      fetched |-> <<>>,
                      comment |-> comment,
                      calls   |-> <<>>,
                      printed |-> <<>>]
    /\ UNCHANGED <<notifier_label_vars, resolver_vars, codegen_vars>>

\* Someone else comments on the PR: a participant, or another workflow
\* posting under a bot login a comment that does not carry the marker.
user_comments(login, body) ==
    /\ Len(comments) < MaxComments
    /\ login \in BotLogins => ~ Contains(body, SIGNATURE[1])
    /\ comments' = Append(comments, [url  |-> comment_url(Len(comments) + 1),
                                     user |-> [login |-> login],
                                     body |-> body])
    /\ comment_op' = NoCommentOp
    /\ UNCHANGED <<notifier_label_vars, resolver_vars, codegen_vars>>

----------------------------------------------------------------------------
(* github.py: labels *)

ReleaseLabel == "bot:has-release-file"

\* The label names of the repository, in the order payloads list them.
LabelOrder == <<"bot:has-release-file", "bug">>

LabelNames == Range(LabelOrder)

label_url(name) == [path |-> "labels", name |-> name]

\* get_labels_link: issue_url + "/labels"
get_labels_link == [path |-> "issue/labels", name |-> ""]

\* github_event_data["pull_request"]["labels"] of a PR carrying the labels S.
RECURSIVE payload_from(_, _)
payload_from(S, i) ==
    IF i > Len(LabelOrder) THEN <<>>
    ELSE (IF LabelOrder[i] \in S
          THEN <<[name |-> LabelOrder[i], url |-> label_url(LabelOrder[i])]>>
          ELSE <<>>) \o payload_from(S, i + 1)

payload_labels(S) == payload_from(S, 1)

\* Faulty variant: the sets are not swapped for an invalid release file.
labels_to_add_unswapped(has_valid_release_file) == {ReleaseLabel}

labels_to_add(has_valid_release_file) ==
    IF has_valid_release_file THEN {ReleaseLabel} ELSE {}

current_labels(labels) == {labels[i].name : i \in 1..Len(labels)}

current_labels_url_by_name(labels) ==
    [n \in current_labels(labels) |->
        (CHOOSE i \in 1..Len(labels) :
            /\ labels[i].name = n
            /\ \A j \in 1..Len(labels) : labels[j].name = n => j <= i) ]

\* for label in labels_to_remove: the set's elements in iteration order.
RECURSIVE in_order(_)
in_order(S) ==
    IF S = {} THEN <<>>
    ELSE LET x == CHOOSE x \in S : TRUE IN <<x>> \o in_order(S \ {x})

\* Faulty variant: the label is always to be removed.
labels_to_remove_always(has_valid_release_file) == {ReleaseLabel}

labels_to_remove(has_valid_release_file) ==
    IF has_valid_release_file THEN {} ELSE {ReleaseLabel}

\* Faulty variant: the POST is not guarded by the issuperset test.
label_requests_unchecked(labels, has_valid_release_file) ==
    LET add    == labels_to_add(has_valid_release_file)
        remove == labels_to_remove(has_valid_release_file)
        by_name == current_labels_url_by_name(labels)
        order  == in_order(remove \cap current_labels(labels))
    IN  (IF add # {}
         THEN <<[method |-> "POST", url |-> get_labels_link, labels |-> add]>>
         ELSE <<>>)
        \o [i \in 1..Len(order) |->
               [method |-> "DELETE", url |-> labels[by_name[order[i]]].url,
                labels |-> {}]]

\* The requests update_labels sends, in order (lines 77-93).
label_requests(labels, has_valid_release_file) ==
    LET add    == labels_to_add(has_valid_release_file)
        remove == labels_to_remove(has_valid_release_file)
        by_name == current_labels_url_by_name(labels)
        order  == in_order(remove)
    IN  (IF ~ (add \subseteq current_labels(labels))
         THEN <<[method |-> "POST", url |-> get_labels_link, labels |-> add]>>
         ELSE <<>>)
        \o (IF remove \subseteq current_labels(labels)
            THEN [i \in 1..Len(order) |->
                     [method |-> "DELETE", url |-> labels[by_name[order[i]]].url,
                      labels |-> {}]]
            ELSE <<>>)

\* The PR's labels on the server after a request answered `status`.
server_labels(S, req, status) ==
    IF status >= 400 THEN S
    ELSE IF req.method = "POST" THEN S \cup req.labels
         ELSE S \ {req.url.name}

RECURSIVE server_labels_all(_, _)
server_labels_all(S, calls) ==
    IF calls = <<>> THEN S
    ELSE server_labels_all(server_labels(S, Head(calls).req, Head(calls).status),
                           Tail(calls))

\* The last two of the invocations made in succession.
last_two(ops) == IF Len(ops) > 2 THEN SubSeq(ops, Len(ops) - 1, Len(ops)) ELSE ops

\* update_labels(github_event_data, has_valid_release_file), the i-th request
\* answered statuses[i].
update_labels(has_valid_release_file, statuses) ==
    LET reqs == label_requests(event_labels, has_valid_release_file)
        run  == send_all(reqs, statuses)
    IN  /\ Len(statuses) = Len(reqs)
        /\ pr_labels' = server_labels_all(pr_labels, run.calls)
        /\ event_labels' = event_labels
        /\ label_ops' = last_two(Append(label_ops,
                            [valid   |-> has_valid_release_file,
                             payload |-> event_labels,
                             before  |-> pr_labels,
                             outcome |-> run.outcome,
                             calls   |-> run.calls,
                             printed |-> run.printed]))
        /\ UNCHANGED <<notifier_comment_vars, resolver_vars, codegen_vars>>

\* A new workflow run starts: its payload lists the PR's labels as they are.
receive_event ==
    /\ event_labels' = payload_labels(pr_labels)
    /\ pr_labels' = pr_labels
    /\ label_ops' = label_ops
    /\ UNCHANGED <<notifier_comment_vars, resolver_vars, codegen_vars>>

\* A maintainer changes the PR's labels by hand.
user_sets_labels(S) ==
    /\ S # pr_labels
    /\ pr_labels' = S
    /\ event_labels' = event_labels
    /\ label_ops' = <<>>
    /\ UNCHANGED <<notifier_comment_vars, resolver_vars, codegen_vars>>

----------------------------------------------------------------------------
(* codegen.py: plugin resolution *)

\* Dotted names and plugin paths are sequences of name parts and the
\* separators "." and ":"; a dunder name starts with the part "__".

\* Objects found in modules.  mro is the set of the names of the classes a
\* class derives from, itself included.
Object(name, isclass, mro) ==
    [name |-> name, isclass |-> isclass, mro |-> mro, items |-> {}]

QueryCodegenPlugin == Object("QueryCodegenPlugin", TRUE, {"QueryCodegenPlugin"})

PythonPlugin == Object("PythonPlugin", TRUE, {"PythonPlugin", "QueryCodegenPlugin"})

TypeScriptPlugin ==
    Object("TypeScriptPlugin", TRUE, {"TypeScriptPlugin", "QueryCodegenPlugin"})

CustomPlugin == Object("CustomPlugin", TRUE, {"CustomPlugin", "QueryCodegenPlugin"})

OtherPlugin == Object("OtherPlugin", TRUE, {"OtherPlugin", "QueryCodegenPlugin"})

PathClass == Object("Path", TRUE, {"Path"})

helper == Object("helper", FALSE, {})

\* The value of a module's __all__.
AllList(names) == [name |-> "list", isclass |-> FALSE, mro |-> {}, items |-> names]

\* Faulty variant: the base class itself is accepted.
_is_codegen_plugin_or_base(obj) ==
    /\ obj.isclass
    /\ "QueryCodegenPlugin" \in obj.mro

_is_codegen_plugin(obj) ==
    /\ obj.isclass
    /\ "QueryCodegenPlugin" \in obj.mro
    /\ obj.name # "QueryCodegenPlugin"

\* Results of the functions: a returned object, None, or an exception.
Returned(obj) == [kind |-> "value", obj |-> obj, exc |-> "", message |-> <<>>]

None == [kind |-> "None", obj |-> helper, exc |-> "", message |-> <<>>]

Raised(exc, message) ==
    [kind |-> "raise", obj |-> helper, exc |-> exc, message |-> message]

NotFound == <<>>

\* The module objects import_module can return: __dict__ in insertion order.
Entry(key, value) == [key |-> key, value |-> value]

PluginModule ==
    <<Entry(<<"__", "name__">>, helper),
      Entry(<<"QueryCodegenPlugin">>, QueryCodegenPlugin),
      Entry(<<"helper">>, helper),
      Entry(<<"CustomPlugin">>, CustomPlugin),
      Entry(<<"OtherPlugin">>, OtherPlugin)>>

ExportingModule ==
    <<Entry(<<"__", "all__">>, AllList({<<"OtherPlugin">>, <<"helper">>})),
      Entry(<<"CustomPlugin">>, CustomPlugin),
      Entry(<<"helper">>, helper),
      Entry(<<"OtherPlugin">>, OtherPlugin)>>

PluginlessModule ==
    <<Entry(<<"__", "hidden">>, CustomPlugin),
      Entry(<<"QueryCodegenPlugin">>, QueryCodegenPlugin),
      Entry(<<"Path">>, PathClass),
      Entry(<<"helper">>, helper)>>

PythonModule ==
    <<Entry(<<"__", "name__">>, helper),
      Entry(<<"QueryCodegenPlugin">>, QueryCodegenPlugin),
      Entry(<<"PythonPlugin">>, PythonPlugin)>>

TypeScriptModule ==
    <<Entry(<<"__", "name__">>, helper),
      Entry(<<"QueryCodegenPlugin">>, QueryCodegenPlugin),
      Entry(<<"TypeScriptPlugin">>, TypeScriptPlugin)>>

BuiltinNamespace == <<"strawberry", ".", "codegen", ".", "plugins", ".">>

\* The names import_module may be asked for, and what each may hold.
UserModuleNames == {<<"python">>, <<"custom">>, <<"pkg", ".", "custom">>}

ModuleNames ==
    UserModuleNames \cup {BuiltinNamespace \o <<"python">>,
                          BuiltinNamespace \o <<"typescript">>,
                          BuiltinNamespace \o <<"custom">>}

UserModules == {NotFound, PluginModule, ExportingModule, PluginlessModule}

ModuleTables ==
    {t \in [ModuleNames -> UserModules \cup {PythonModule, TypeScriptModule}] :
        /\ t[BuiltinNamespace \o <<"python">>] = PythonModule
        /\ t[BuiltinNamespace \o <<"typescript">>] = TypeScriptModule
        /\ t[BuiltinNamespace \o <<"custom">>] \in {NotFound, PluginModule}
        /\ \A n \in UserModuleNames : t[n] \in UserModules}

\* The index of the first occurrence of sep in s, 0 when there is none.
find(s, sep) ==
    IF Contains(s, sep)
    THEN CHOOSE i \in 1..Len(s) : s[i] = sep /\ \A j \in 1..(i - 1) : s[j] # sep
    ELSE 0

\* importlib.import_module(module_name) against the module table.
importable(table, module_name) ==
    /\ module_name \in DOMAIN table
    /\ table[module_name] # NotFound

has_key(module, key) == \E i \in 1..Len(module) : module[i].key = key

getitem(module, key) == module[CHOOSE i \in 1..Len(module) : module[i].key = key].value

\* The values of `symbols`, in order (lines 45-56).
symbols(module) ==
    LET public(e) == e.key[1] # "__"
        exported(e) ==
            /\ e.key[1] # "__"
            /\ e.key \in getitem(module, <<"__", "all__">>).items
    IN  IF has_key(module, <<"__", "all__">>)
        THEN SelectSeq(module, exported)
        ELSE SelectSeq(module, public)

_import_plugin(table, plugin) ==
    LET colon       == find(plugin, ":")
        module_name == IF colon # 0 THEN SubSeq(plugin, 1, colon - 1) ELSE plugin
        symbol_name == IF colon # 0 THEN SubSeq(plugin, colon + 1, Len(plugin))
                       ELSE <<>>
    IN  IF module_name = <<>> THEN Raised("ValueError", <<"Empty module name">>)
        ELSE IF ~ importable(table, module_name) THEN None
        ELSE LET module == table[module_name]
                 found  == {i \in 1..Len(symbols(module)) :
                               _is_codegen_plugin(symbols(module)[i].value)}
             IN  IF symbol_name # <<>>
                 THEN IF ~ has_key(module, symbol_name)
                      THEN Raised("AttributeError", symbol_name)
                      ELSE IF ~ _is_codegen_plugin(getitem(module, symbol_name))
                           THEN Raised("AssertionError", <<>>)
                           ELSE Returned(getitem(module, symbol_name))
                 ELSE IF found = {} THEN None
                      ELSE Returned(symbols(module)[
                               CHOOSE i \in found : \A j \in found : i <= j].value)

\* Faulty variant: the retry ignores the "." test.
_load_plugin_always_retries(table, plugin_path) ==
    LET first  == _import_plugin(table, plugin_path)
        second == _import_plugin(table, BuiltinNamespace \o plugin_path)
        retry  == first.kind = "None"
        plugin == IF retry THEN second ELSE first
    IN  [steps  |-> <<[plugin |-> plugin_path, result |-> first]>>
                    \o (IF retry
                        THEN <<[plugin |-> BuiltinNamespace \o plugin_path,
                                result |-> second]>>
                        ELSE <<>>),
         result |-> IF plugin.kind = "None"
                    THEN Raised("ClickException",
                                <<"Plugin ">> \o plugin_path \o <<" not found">>)
                    ELSE plugin]

\* _load_plugin(plugin_path): the _import_plugin calls it makes, in order, and
\* what it returns or raises.
_load_plugin(table, plugin_path) ==
    LET first  == _import_plugin(table, plugin_path)
        second == _import_plugin(table, BuiltinNamespace \o plugin_path)
        retry  == first.kind = "None" /\ ~ Contains(plugin_path, ".")
        plugin == IF retry THEN second ELSE first
    IN  [steps  |-> <<[plugin |-> plugin_path, result |-> first]>>
                    \o (IF retry
                        THEN <<[plugin |-> BuiltinNamespace \o plugin_path,
                                result |-> second]>>
                        ELSE <<>>),
         result |-> IF plugin.kind = "None"
                    THEN Raised("ClickException",
                                <<"Plugin ">> \o plugin_path \o <<" not found">>)
                    ELSE plugin]

\* The --plugins values tried.
PluginPaths ==
    {<<"python">>, <<"custom">>, <<"pkg", ".", "custom">>, <<"typescript">>,
     <<"python", ":", "PythonPlugin">>,
     <<"custom", ":", "CustomPlugin">>, <<"custom", ":", "OtherPlugin">>,
     <<"custom", ":", "QueryCodegenPlugin">>, <<"custom", ":", "Path">>,
     <<"custom", ":", "helper">>, <<"custom", ":", "missing">>,
     <<"custom", ":">>, <<":", "CustomPlugin">>,
     <<"pkg", ".", "custom", ":", "helper">>,
     <<"pkg", ".", "custom", ":", "OtherPlugin">>}

NoLoadOp == [plugin_path |-> <<>>, steps |-> <<>>, result |-> None]

\* One run of _load_plugin, as the command makes for each --plugins value.
load_plugin(plugin_path) ==
    LET run == _load_plugin(modules, plugin_path)
    IN  /\ load_op' = [plugin_path |-> plugin_path,
                       steps       |-> run.steps,
                       result      |-> run.result]
        /\ modules' = modules
        /\ UNCHANGED <<notifier_comment_vars, notifier_label_vars, codegen_vars>>

----------------------------------------------------------------------------
(* codegen.py: the command *)

MaxQueries == 3

\* A pathlib.Path: the parent directory and the final component, the latter
\* as name parts and "." separators.
Path(parent, name) == [parent |-> parent, name |-> name]

\* Path.stem: the final component without its last suffix; a leading or a
\* trailing "." starts no suffix.
stem(name) ==
    LET dots == {i \in 1..Len(name) : name[i] = "."}
        i    == IF dots = {} THEN 0 ELSE CHOOSE d \in dots : \A e \in dots : d >= e
    IN  IF 1 < i /\ i < Len(name) THEN SubSeq(name, 1, i - 1) ELSE name

isinstance(p, class) == class.name \in p.type.mro

\* The console plugin class of this file (lines 84-121).
ConsolePlugin == Object("ConsolePlugin", TRUE, {"ConsolePlugin", "QueryCodegenPlugin"})

\* plugin_type(): a new instance; id tells instances apart, outfile_name is
\* <<>> until the command assigns one.
new_instance(id, plugin_type) ==
    [id |-> id, type |-> plugin_type, query |-> Path("", <<>>), outfile_name |-> <<>>]

\* The body of `for p in plugins` (lines 169-176).
adjust(p, q, query) ==
    LET with_query == [p EXCEPT !.query = q]
    IN  IF Len(query) > 1
        THEN IF isinstance(p, PythonPlugin)
             THEN [with_query EXCEPT !.outfile_name = stem(q.name) \o <<".", "py">>]
             ELSE IF isinstance(p, TypeScriptPlugin)
                  THEN [with_query EXCEPT !.outfile_name = stem(q.name) \o <<".", "js">>]
                  ELSE with_query
        ELSE with_query

\* The plugins list of one iteration of `for q in query` (lines 162-179),
\* the instances numbered from first_id.
plugins_for(q, query, plugin_types, console_plugin_type, first_id) ==
    [j \in 1..Len(plugin_types) |->
        adjust(new_instance(first_id + j - 1, plugin_types[j]), q, query)]
    \o <<[new_instance(first_id + Len(plugin_types), console_plugin_type)
              EXCEPT !.query = q]>>

\* _load_plugins and the console plugin type (lines 157-159): the results of
\* the _load_plugin calls, in the order they are made.
load_results(table, selected_plugins, cli_plugin) ==
    (IF cli_plugin # <<>> THEN <<_load_plugin(table, cli_plugin).result>>
     ELSE <<Returned(ConsolePlugin)>>)
    \o [j \in 1..Len(selected_plugins) |->
           _load_plugin(table, selected_plugins[j]).result]

NoCodegenOp ==
    [state |-> "none", query |-> <<>>, plugin_types |-> <<>>,
     console_plugin_type |-> ConsolePlugin, done |-> 0, error |-> None]

\* The command is started (once per process): the options are parsed and the
\* plugin types loaded.  The first _load_plugin that raises ends the command.
codegen_start(query, selected_plugins, cli_plugin) ==
    LET loaded == load_results(modules, selected_plugins, cli_plugin)
        failed == {j \in 1..Len(loaded) : loaded[j].kind = "raise"}
    IN  /\ codegen_op.state = "none"
        /\ instances' = <<>>
        /\ codegen_op' =
              IF failed # {}
              THEN [NoCodegenOp EXCEPT
                       !.state = "raised",
                       !.query = query,
                       !.error = loaded[CHOOSE j \in failed : \A k \in failed : j <= k]]
              ELSE [state |-> IF query = <<>> THEN "done" ELSE "running",
                    query |-> query,
                    plugin_types |-> [j \in 1..Len(selected_plugins) |-> loaded[j + 1].obj],
                    console_plugin_type |-> loaded[1].obj,
                    done |-> 0,
                    error |-> None]
        /\ UNCHANGED <<notifier_comment_vars, notifier_label_vars, resolver_vars>>

\* One iteration of `for q in query`: the plugins are constructed and
\* adjusted, the console plugin appended, the generator run.
codegen_query ==
    /\ codegen_op.state = "running"
    /\ LET q == codegen_op.query[codegen_op.done + 1]
       IN  /\ instances' = Append(instances,
                  plugins_for(q, codegen_op.query, codegen_op.plugin_types,
                              codegen_op.console_plugin_type,
                              1 + codegen_op.done * (Len(codegen_op.plugin_types) + 1)))
           /\ codegen_op' = [codegen_op EXCEPT
                  !.done = @ + 1,
                  !.state = IF codegen_op.done + 1 = Len(codegen_op.query)
                            THEN "done" ELSE "running"]
    /\ UNCHANGED <<notifier_comment_vars, notifier_label_vars, resolver_vars>>

\* The query files tried.
QueryPaths ==
    {Path("a", <<"q", ".", "graphql">>), Path("b", <<"q", ".", "graphql">>),
     Path("a", <<"q", ".", "gql">>), Path("a", <<"r", ".", "graphql">>),
     Path("a", <<"q", ".", "v2", ".", "graphql">>), Path("a", <<".", "q">>)}

QueryTuples ==
    UNION {[1..n -> QueryPaths] : n \in 0..MaxQueries}

\* The --plugins selections and --cli-plugin values tried.
PluginSelections ==
    {<<<<"python">>>>, <<<<"typescript">>>>, <<<<"python">>, <<"typescript">>>>,
     <<<<"custom">>, <<"python">>>>, <<<<"custom", ":", "helper">>>>}

CliPlugins == {<<>>, <<"custom">>}

----------------------------------------------------------------------------
(* Specifications of the notifier *)

StatusSeqs == {<<>>} \cup {<<s>> : s \in Statuses}
              \cup {<<s, t>> : s \in Statuses, t \in Statuses}

InitComments ==
    /\ comments = <<>>
    /\ comment_op = NoCommentOp

InitLabels ==
    /\ pr_labels \in SUBSET LabelNames
    /\ event_labels = payload_labels(pr_labels)
    /\ label_ops = <<>>

\* The notifier's specifications run with nothing installed; the resolver's
\* run against every module table.
InitNoModules ==
    /\ modules = [n \in ModuleNames |-> NotFound]
    /\ load_op = NoLoadOp

InitResolver ==
    /\ modules \in ModuleTables
    /\ load_op = NoLoadOp

InitCodegen ==
    /\ instances = <<>>
    /\ codegen_op = NoCodegenOp

\* The command's specification runs with a plugin module `custom` beside the
\* built-in ones.
InitCodegenModules ==
    /\ modules = [n \in ModuleNames |->
                     IF n = BuiltinNamespace \o <<"python">> THEN PythonModule
                     ELSE IF n = BuiltinNamespace \o <<"typescript">>
                          THEN TypeScriptModule
                          ELSE IF n = <<"custom">> THEN PluginModule ELSE NotFound]
    /\ load_op = NoLoadOp

\* A PR without labels, for the specifications that are not about them.
InitNoLabels ==
    /\ pr_labels = {}
    /\ event_labels = <<>>
    /\ label_ops = <<>>

Init == InitComments /\ InitLabels /\ InitNoModules /\ InitCodegen

CommentsInit == InitComments /\ InitNoLabels /\ InitNoModules /\ InitCodegen

CodegenInit == InitComments /\ InitNoLabels /\ InitCodegenModules /\ InitCodegen

ResolverInit == InitComments /\ InitNoLabels /\ InitResolver /\ InitCodegen

NextComments ==
    \/ \E c \in Texts, l \in BotLogins, s \in Statuses :
           add_or_edit_comment(c, l, s)
    \/ \E c \in Texts : add_or_edit_comment_get_fails(c)
    \/ \E l \in UserLogins \cup BotLogins, b \in Texts : user_comments(l, b)

NextLabels ==
    \/ \E v \in BOOLEAN, st \in StatusSeqs : update_labels(v, st)
    \/ receive_event
    \/ \E S \in SUBSET LabelNames : user_sets_labels(S)

\* The script alone: workflow runs invoking the two handlers, nobody else
\* touching the PR.
NextNotifier ==
    \/ \E c \in Texts, l \in BotLogins, s \in Statuses :
           add_or_edit_comment(c, l, s)
    \/ \E c \in Texts : add_or_edit_comment_get_fails(c)
    \/ \E v \in BOOLEAN, st \in StatusSeqs : update_labels(v, st)
    \/ receive_event

SpecNotifier == Init /\ [][NextNotifier]_vars

NextResolver == \E p \in PluginPaths : load_plugin(p)

SpecResolver == ResolverInit /\ [][NextResolver]_vars

NextCodegen ==
    \/ \E query \in QueryTuples, sel \in PluginSelections, cli \in CliPlugins :
           codegen_start(query, sel, cli)
    \/ codegen_query

SpecCodegen == CodegenInit /\ [][NextCodegen]_vars

SpecComments == CommentsInit /\ [][NextComments]_vars

SpecLabels == Init /\ [][NextLabels]_vars

----------------------------------------------------------------------------
(* Claims about the notifier *)

\* The comments a reader of the PR sees as the bot's status comments.
SignedBotComments(cs) ==
    {i \in 1..Len(cs) :
        /\ cs[i].user.login \in {"github-actions[bot]", "botberry"}
        /\ \E k \in 1..Len(cs[i].body) : cs[i].body[k] = SIGNATURE[1]}

\* C1: after any sequence of completed add_or_edit_comment invocations, with
\* any texts and any answers, the PR holds at most one comment authored by the
\* bot and carrying the marker.
C1_AtMostOneSignedComment == Cardinality(SignedBotComments(comments)) <= 1

\* C1 witness: an invocation found the signed comment and edited it in place,
\* beside other comments.
C1_Witness ==
    /\ comment_op.outcome = "returned"
    /\ Len(comment_op.calls) = 1
    /\ comment_op.calls[1].req.method = "PATCH"
    /\ comment_op.calls[1].status < 400
    /\ Len(comments) = MaxComments
    /\ Cardinality(SignedBotComments(comments)) = 1

\* C2: a completed add_or_edit_comment sends exactly one mutating request,
\* whose body is the text followed by SIGNATURE: a POST to the comments link
\* when no fetched comment is a signed bot comment, else a PATCH to the URL of
\* that (first) comment.
C2_ExactlyOneRequest ==
    comment_op.outcome = "returned" =>
        LET prior == SignedBotComments(comment_op.fetched)
        IN  /\ Len(comment_op.calls) = 1
            /\ comment_op.calls[1].req.body = comment_op.comment \o SIGNATURE
            /\ prior = {} =>
                  /\ comment_op.calls[1].req.method = "POST"
                  /\ comment_op.calls[1].req.url = get_comments_link
            /\ prior # {} =>
                  /\ comment_op.calls[1].req.method = "PATCH"
                  /\ \E i \in prior :
                        /\ \A j \in prior : i <= j
                        /\ comment_op.calls[1].req.url = comment_op.fetched[i].url

\* C2 witness: an update of a prior signed comment that is not the first
\* comment of the list.
C2_Witness ==
    /\ comment_op.outcome = "returned"
    /\ SignedBotComments(comment_op.fetched) # {}
    /\ 1 \notin SignedBotComments(comment_op.fetched)
    /\ comment_op.calls[1].req.method = "PATCH"

\* C10: the comment add_or_edit_comment updates is by a recognized bot login
\* and carries the marker; no other fetched comment is ever the target.
C10_OnlySignedBotCommentSelected ==
    comment_op.outcome = "returned" =>
        \A k \in 1..Len(comment_op.calls) :
            \A i \in 1..Len(comment_op.fetched) :
                (/\ comment_op.calls[k].req.method = "PATCH"
                 /\ comment_op.calls[k].req.url = comment_op.fetched[i].url)
                => (/\ comment_op.fetched[i].user.login
                           \in {"github-actions[bot]", "botberry"}
                    /\ Contains(comment_op.fetched[i].body, SIGNATURE[1]))

\* C10 witness: the fetched list held a marker-carrying comment by an
\* unrecognized login and a bot comment without the marker, and a new comment
\* was created.
C10_Witness ==
    /\ comment_op.outcome = "returned"
    /\ \E i \in 1..Len(comment_op.fetched) :
          /\ comment_op.fetched[i].user.login \notin BotLogins
          /\ Contains(comment_op.fetched[i].body, SIGNATURE[1])
    /\ \E i \in 1..Len(comment_op.fetched) :
          /\ comment_op.fetched[i].user.login \in BotLogins
          /\ ~ Contains(comment_op.fetched[i].body, SIGNATURE[1])
    /\ comment_op.calls[1].req.method = "POST"

LastLabelOp == label_ops[Len(label_ops)]

PayloadNames(op) == {op.payload[i].name : i \in 1..Len(op.payload)}

Posts(op) == {i \in 1..Len(op.calls) : op.calls[i].req.method = "POST"}

Deletes(op) == {i \in 1..Len(op.calls) : op.calls[i].req.method = "DELETE"}

Succeeded(op) == {i \in 1..Len(op.calls) : op.calls[i].status < 400}

C5_AddXorRemove ==
    \A k \in 1..Len(label_ops) :
        LET op == label_ops[k]
        IN  /\ op.valid => Deletes(op) = {}
            /\ ~ op.valid => Posts(op) = {}
            /\ Posts(op) = {} \/ Deletes(op) = {}
            /\ ReleaseLabel \in PayloadNames(op) => Posts(op) = {}
            /\ ReleaseLabel \notin PayloadNames(op) => Deletes(op) = {}

\* C5 witness: both an adding and a removing invocation happened, each on a
\* payload that called for it.
C5_Witness ==
    /\ Len(label_ops) = 2
    /\ Posts(label_ops[1]) # {}
    /\ Deletes(label_ops[2]) # {}

\* The number of requests an update_labels invocation has to send.
Due(op) ==
    IF op.valid THEN (IF ReleaseLabel \in PayloadNames(op) THEN 0 ELSE 1)
    ELSE (IF ReleaseLabel \in PayloadNames(op) THEN 1 ELSE 0)

\* The statuses >= 400 among the answers, in order.
Failures(calls) ==
    LET F(c) == c.status >= 400
    IN  [i \in 1..Len(SelectSeq(calls, F)) |-> SelectSeq(calls, F)[i].status]

\* C9: a status >= 400 to a mutating request is logged and nothing is raised:
\* the handler sends every request it has to send, each once, and returns.
C9_ErrorsAreNotFatal ==
    /\ comment_op.calls # <<>> =>
          /\ comment_op.outcome = "returned"
          /\ Len(comment_op.calls) = 1
          /\ comment_op.printed = Failures(comment_op.calls)
    /\ \A k \in 1..Len(label_ops) :
          /\ label_ops[k].outcome = "returned"
          /\ Len(label_ops[k].calls) = Due(label_ops[k])
          /\ label_ops[k].printed = Failures(label_ops[k].calls)

\* C9 witness: both handlers had a request answered with an error, logged it
\* and returned.
C9_Witness ==
    /\ comment_op.outcome = "returned"
    /\ comment_op.printed # <<>>
    /\ Len(label_ops) = 2
    /\ label_ops[1].printed # <<>>
    /\ label_ops[1].outcome = "returned"
    /\ Posts(label_ops[1]) # {}
    /\ label_ops[2].printed # <<>>
    /\ Deletes(label_ops[2]) # {}

----------------------------------------------------------------------------
(* Claims about plugin resolution *)

\* The module part and the symbol part of a plugin path.
ModulePart(path) ==
    IF \E i \in 1..Len(path) : path[i] = ":"
    THEN SubSeq(path, 1, (CHOOSE i \in 1..Len(path) :
                             path[i] = ":" /\ \A j \in 1..(i - 1) : path[j] # ":") - 1)
    ELSE path

SymbolPart(path) == SubSeq(path, Len(ModulePart(path)) + 2, Len(path))

Imports(name) == name \in DOMAIN modules /\ modules[name] # <<>>

\* The module has a public (and, with __all__, exported) plugin class.
OffersPlugin(name) ==
    \E i \in 1..Len(modules[name]) :
        LET e == modules[name][i]
        IN  /\ e.key[1] # "__"
            /\ e.value.isclass
            /\ "QueryCodegenPlugin" \in e.value.mro
            /\ e.value.name # "QueryCodegenPlugin"
            /\ \A k \in 1..Len(modules[name]) :
                  modules[name][k].key = <<"__", "all__">>
                  => e.key \in modules[name][k].value.items

C8_BadSymbolIsAssertionError ==
    (/\ load_op.steps # <<>>
     /\ SymbolPart(load_op.plugin_path) # <<>>
     /\ Imports(ModulePart(load_op.plugin_path))
     /\ \E i \in 1..Len(modules[ModulePart(load_op.plugin_path)]) :
           LET e == modules[ModulePart(load_op.plugin_path)][i]
           IN  /\ e.key = SymbolPart(load_op.plugin_path)
               /\ \/ ~ e.value.isclass
                  \/ "QueryCodegenPlugin" \notin e.value.mro
                  \/ e.value.name = "QueryCodegenPlugin")
    => /\ load_op.result.kind = "raise"
       /\ load_op.result.exc = "AssertionError"
       /\ Len(load_op.steps) = 1
       /\ load_op.steps[1].result.kind = "raise"

\* C8 witness: custom:QueryCodegenPlugin named the base class itself and the
\* load ended with the assertion failing.
C8_Witness ==
    /\ load_op.plugin_path = <<"custom", ":", "QueryCodegenPlugin">>
    /\ Imports(<<"custom">>)
    /\ Imports(BuiltinNamespace \o <<"custom">>)
    /\ load_op.result.exc = "AssertionError"

----------------------------------------------------------------------------
(* Claims about the command *)

\* Every instance constructed by the finished command, with the query file it
\* was constructed for.
AllInstances ==
    {[run |-> i, inst |-> instances[i][j]] :
        i \in 1..Len(instances), j \in 1..(Len(codegen_op.plugin_types) + 1)}

EmitsFile(x) ==
    "PythonPlugin" \in x.inst.type.mro \/ "TypeScriptPlugin" \in x.inst.type.mro

DistinctPaths(query) ==
    \A i, j \in 1..Len(query) : i # j => query[i] # query[j]

\* C6 as stated: with more than one (distinct) query file and a built-in
\* file-emitting plugin selected, every query file gets its own fresh plugin
\* instances, and the output file names given to the built-in plugins'
\* instances of different query files are pairwise distinct.
C6_Original ==
    (/\ codegen_op.state = "done"
     /\ Len(codegen_op.query) > 1
     /\ DistinctPaths(codegen_op.query))
    => /\ Len(instances) = Len(codegen_op.query)
       /\ \A x, y \in AllInstances :
             /\ x # y => x.inst.id # y.inst.id
             /\ x.inst.query = codegen_op.query[x.run]
             /\ (EmitsFile(x) /\ EmitsFile(y) /\ x.run # y.run)
                   => x.inst.outfile_name # y.inst.outfile_name

====
